---- MODULE Spec2Model ----
(***************************************************************************)
(* Model of the rack inventory service of src/backend/server.py: the       *)
(* db.racks collection, the clock read by datetime.utcnow, the uuid4       *)
(* source, and the request handlers create_rack, get_all_racks,            *)
(* search_racks, get_rack, update_rack and delete_rack.                    *)
(*                                                                         *)
(* A string is a sequence of one-character strings.  An Optional value is  *)
(* a sequence of length 0 (None) or 1.  A handler that awaits the store    *)
(* more than once is split at each await; everything a handler does        *)
(* between two awaits is one step (the handlers run on one event loop).    *)
(***************************************************************************)
EXTENDS Integers, Sequences, FiniteSets, TLC

VARIABLES
    racks,     \* the db.racks collection: documents in insertion order
    nextId,    \* number of ids uuid4 has produced so far
    now,       \* the clock datetime.utcnow reads, in microsecond ticks
    pc,        \* per handler slot: where an in-flight handler is suspended
    loc,       \* per handler slot: the local variables of the in-flight handler
    last,      \* the response sent by the step just taken (NoResp if none)
    pristine,  \* history: id -> the fields create_rack was given, for the
               \* stored racks that no update_one has modified
    assigned   \* history: the ids given to racks so far

vars == <<racks, nextId, now, pc, loc, last, pristine, assigned>>

---------------------------------------------------------------------------
(* Bounds of the model.                                                    *)

\* ids uuid4 may hand out in one behaviour
MaxIds == 2
\* last tick of the clock
MaxTime == 2
\* clock ticks per millisecond (1000 microseconds in BSON; scaled)
TicksPerMs == 2
\* stands for the length given to to_list in get_all_racks (10000), scaled
\* to the size of the stores the listing is checked on
ToListLimit == 3
\* stands for the length given to to_list in search_racks (1000), scaled
SearchToListLimit == 3
\* racks in the stores the listing is checked on
MaxListRacks == 4
\* pages requested from the listing
MaxPage == 4

\* the two handler slots: requests in flight at the same time
Procs == {"p1", "p2"}

---------------------------------------------------------------------------
(* Characters and strings.                                                 *)

None == <<>>
Some(v) == <<v>>

\* code point of a character: Python compares str by code point
Ord(c) ==
    CASE c = " " -> 32
      [] c = "*" -> 42
      [] c = "A" -> 65
      [] c = "a" -> 97
      [] c = "b" -> 98
      [] c = "\\" -> 92

\* str.lower / case folding of one character
Lower(c) == IF c = "A" THEN "a" ELSE c

\* s < t for Python str (lexicographic by code point, a proper prefix first)
RECURSIVE StrLess(_, _)
StrLess(s, t) ==
    IF t = <<>> THEN FALSE
    ELSE IF s = <<>> THEN TRUE
    ELSE IF Ord(Head(s)) # Ord(Head(t)) THEN Ord(Head(s)) < Ord(Head(t))
    ELSE StrLess(Tail(s), Tail(t))

\* list.sort() of a list holding the distinct strings of S
RECURSIVE SortStrings(_)
SortStrings(S) ==
    IF S = {} THEN <<>>
    ELSE LET m == CHOOSE x \in S : \A y \in S \ {x} : StrLess(x, y)
         IN  <<m>> \o SortStrings(S \ {m})

\* Python slice xs[lo : hi] with 0 <= lo <= hi (0-based, hi exclusive)
Slice(xs, lo, hi) ==
    LET a == IF lo > Len(xs) THEN Len(xs) ELSE lo
        b == IF hi > Len(xs) THEN Len(xs) ELSE hi
    IN  IF a >= b THEN <<>> ELSE SubSeq(xs, a + 1, b)

Range(f) == {f[i] : i \in DOMAIN f}

---------------------------------------------------------------------------
(* The store: BSON encoding and the collection operations the handlers     *)
(* call on db.racks.                                                       *)

\* a BSON date keeps milliseconds: the driver drops the microseconds
BsonDate(t) == t - (t % TicksPerMs)

\* a uuid source whose second value repeats its first
Uuid4Repeating(n) == IF n = 0 THEN 1 ELSE n

\* uuid4: a value no earlier call returned (n calls were made before)
Uuid4(n) == n + 1

Min(S) == CHOOSE x \in S : \A y \in S : x <= y

\* positions of the documents matching {"id": id}
Matching(coll, id) == {i \in DOMAIN coll : coll[i].id = id}

\* find_one({"id": id}): the first matching document, or None
FindOne(coll, id) ==
    IF Matching(coll, id) = {} THEN None
    ELSE Some(coll[Min(Matching(coll, id))])

\* insert_one(doc): the document is encoded and appended
InsertOne(coll, doc) ==
    Append(coll, [doc EXCEPT !.createdAt = BsonDate(@),
                             !.updatedAt = BsonDate(@)])

\* a $set that stamps createdAt as well
SetFieldsStamping(doc, data) ==
    [doc EXCEPT
        !.rackNumber = IF "rackNumber" \in DOMAIN data THEN data.rackNumber ELSE @,
        !.floor      = IF "floor" \in DOMAIN data THEN data.floor ELSE @,
        !.items      = IF "items" \in DOMAIN data THEN data.items ELSE @,
        !.createdAt  = IF "updatedAt" \in DOMAIN data
                       THEN BsonDate(data.updatedAt) ELSE @,
        !.updatedAt  = IF "updatedAt" \in DOMAIN data
                       THEN BsonDate(data.updatedAt) ELSE @]

\* {"$set": data} applied to one document: the fields of data replace the
\* document's, the others stay
SetFields(doc, data) ==
    [doc EXCEPT
        !.rackNumber = IF "rackNumber" \in DOMAIN data THEN data.rackNumber ELSE @,
        !.floor      = IF "floor" \in DOMAIN data THEN data.floor ELSE @,
        !.items      = IF "items" \in DOMAIN data THEN data.items ELSE @,
        !.updatedAt  = IF "updatedAt" \in DOMAIN data
                       THEN BsonDate(data.updatedAt) ELSE @]

\* an update_one with upsert: when no document matches, one is inserted
\* with the id of the filter and the fields of data
UpdateOneUpsert(coll, id, data) ==
    IF Matching(coll, id) = {}
    THEN Append(coll, SetFields([id |-> id, rackNumber |-> <<>>,
                                 floor |-> <<>>, items |-> <<>>,
                                 createdAt |-> 0, updatedAt |-> 0], data))
    ELSE [coll EXCEPT ![Min(Matching(coll, id))] = SetFields(@, data)]

\* update_one({"id": id}, {"$set": data}): the first matching document is
\* modified; no match changes nothing (no upsert)
UpdateOne(coll, id, data) ==
    IF Matching(coll, id) = {} THEN coll
    ELSE [coll EXCEPT ![Min(Matching(coll, id))] = SetFields(@, data)]

\* delete_one({"id": id}): the first matching document is removed
DeleteOne(coll, id) ==
    IF Matching(coll, id) = {} THEN coll
    ELSE LET i == Min(Matching(coll, id))
         IN  SubSeq(coll, 1, i - 1) \o SubSeq(coll, i + 1, Len(coll))

\* a count that reports a deletion whether or not a document matched
DeletedCountIgnored(coll, id) == 1

\* result.deleted_count of delete_one({"id": id})
DeletedCount(coll, id) == IF Matching(coll, id) = {} THEN 0 ELSE 1

\* distinct("floor"): the floor values present in the collection
Distinct(coll) == {coll[i].floor : i \in DOMAIN coll}

\* cursor.to_list(n): at most the first n documents
ToList(docs, n) == IF Len(docs) > n THEN SubSeq(docs, 1, n) ELSE docs

\* the documents of docs ordered by floor ascending, ties in stored order
RECURSIVE ConcatByFloor(_, _)
ConcatByFloor(docs, fs) ==
    IF fs = <<>> THEN <<>>
    ELSE SelectSeq(docs, LAMBDA d : d.floor = Head(fs))
         \o ConcatByFloor(docs, Tail(fs))

SortByFloor(docs) ==
    ConcatByFloor(docs, SortStrings({docs[i].floor : i \in DOMAIN docs}))

\* find({"floor": {"$in": floors}}).sort("floor", 1)
FindInFloors(coll, floors) ==
    SortByFloor(SelectSeq(coll, LAMBDA d : d.floor \in Range(floors)))

---------------------------------------------------------------------------
(* The re module, as far as search_racks uses it, on the model's alphabet: *)
(* a pattern is a string; "*" repeats the atom before it, a backslash      *)
(* makes the next character a literal, any other character is a literal.   *)

\* the characters of the alphabet that re.escape puts a backslash before
ReSpecial == {"*", " ", "\\"}

\* re.escape(q)
RECURSIVE ReEscape(_)
ReEscape(q) ==
    IF q = <<>> THEN <<>>
    ELSE (IF Head(q) \in ReSpecial THEN <<"\\", Head(q)>> ELSE <<Head(q)>>)
         \o ReEscape(Tail(q))

\* the parse of a pattern: its atoms (a character, repeated or not), or
\* ok = FALSE where re.compile raises re.error (nothing to repeat, multiple
\* repeat, bad escape at the end)
RECURSIVE ReParse(_, _)
ReParse(pat, atoms) ==
    IF pat = <<>> THEN [ok |-> TRUE, atoms |-> atoms]
    ELSE IF Head(pat) = "\\"
    THEN IF Len(pat) < 2 THEN [ok |-> FALSE, atoms |-> <<>>]
         ELSE ReParse(Tail(Tail(pat)),
                      Append(atoms, [ch |-> pat[2], star |-> FALSE]))
    ELSE IF Head(pat) = "*"
    THEN IF atoms = <<>> \/ atoms[Len(atoms)].star
         THEN [ok |-> FALSE, atoms |-> <<>>]
         ELSE ReParse(Tail(pat),
                      [atoms EXCEPT ![Len(atoms)].star = TRUE])
    ELSE ReParse(Tail(pat), Append(atoms, [ch |-> Head(pat), star |-> FALSE]))

\* re.compile(pat, re.IGNORECASE)
ReCompile(pat) == ReParse(pat, <<>>)

\* whether the atoms match a prefix of s, letters compared without case
RECURSIVE ReMatchHere(_, _)
ReMatchHere(atoms, s) ==
    IF atoms = <<>> THEN TRUE
    ELSE IF Head(atoms).star
    THEN \/ ReMatchHere(Tail(atoms), s)
         \/ /\ s # <<>>
            /\ Lower(Head(atoms).ch) = Lower(Head(s))
            /\ ReMatchHere(atoms, Tail(s))
    ELSE /\ s # <<>>
         /\ Lower(Head(atoms).ch) = Lower(Head(s))
         /\ ReMatchHere(Tail(atoms), Tail(s))

\* regex.search(s) is not None: a match starting anywhere in s
ReSearch(regex, s) ==
    \E k \in 0 .. Len(s) : ReMatchHere(regex.atoms, SubSeq(s, k + 1, Len(s)))

\* the pattern compiled from q as it is, without re.escape
SearchRegexRaw(q) == ReCompile(q)

\* search_regex = re.compile(re.escape(q), re.IGNORECASE)
SearchRegex(q) == ReCompile(ReEscape(q))

\* the items of a rack that search_regex finds, in the rack's order
MatchedOf(regex, items) == SelectSeq(items, LAMBDA item : ReSearch(regex, item))

---------------------------------------------------------------------------
(* The text index on rackNumber, floor and items, and {"$text":            *)
(* {"$search": q}}: a string is cut into words at the characters that are  *)
(* not letters or digits, the words are compared without case, and a       *)
(* document matches when one of its words is one of the words of q.        *)

\* a character that ends a word
IsDelimiter(c) == c \in {" ", "*", "\\"}

\* the words of s, in lower case; word is the word being read
RECURSIVE WordsFrom(_, _)
WordsFrom(s, word) ==
    IF s = <<>> THEN (IF word = <<>> THEN {} ELSE {word})
    ELSE IF IsDelimiter(Head(s))
    THEN (IF word = <<>> THEN {} ELSE {word}) \cup WordsFrom(Tail(s), <<>>)
    ELSE WordsFrom(Tail(s), Append(word, Lower(Head(s))))

Words(s) == WordsFrom(s, <<>>)

\* the words the text index holds for a document
IndexedWords(doc) ==
    Words(doc.rackNumber) \cup Words(doc.floor)
    \cup UNION {Words(doc.items[k]) : k \in DOMAIN doc.items}

\* find({"$text": {"$search": q}})
TextFind(coll, q) ==
    SelectSeq(coll, LAMBDA d : Words(q) \cap IndexedWords(d) # {})

---------------------------------------------------------------------------
(* The request and response models (pydantic).                             *)

\* RackCreate(...): rackNumber and floor are required str fields
ValidRackCreate(body) == body.rackNumber # None /\ body.floor # None

\* rack_data.dict(): items defaults to the empty list
RackCreateDict(body) ==
    [rackNumber |-> body.rackNumber[1],
     floor      |-> body.floor[1],
     items      |-> IF body.items = None THEN <<>> ELSE body.items[1]]

\* Rack(**rack_dict): id, createdAt and updatedAt come from their default
\* factories, called in field order; t1 and t2 are the two clock readings
NewRack(d, id, t1, t2) ==
    [id |-> id, rackNumber |-> d.rackNumber, floor |-> d.floor,
     items |-> d.items, createdAt |-> t1, updatedAt |-> t2]

\* the filter written "if v": an empty string or list is dropped like None
UpdateDataTruthy(body, t) ==
    [k \in {f \in {"rackNumber", "floor", "items"} :
               body[f] # None /\ body[f] # Some(<<>>)}
           \cup {"updatedAt"}
        |-> IF k = "updatedAt" THEN t ELSE body[k][1]]

\* rack_update.dict() without the filter: a field left out is written as
\* None (the empty value)
UpdateDataUnfiltered(body, t) ==
    [k \in {"rackNumber", "floor", "items", "updatedAt"}
        |-> IF k = "updatedAt" THEN t
            ELSE IF body[k] = None THEN <<>> ELSE body[k][1]]

\* {k: v for k, v in rack_update.dict().items() if v is not None}, then
\* update_data["updatedAt"] = datetime.utcnow()
UpdateData(body, t) ==
    [k \in {f \in {"rackNumber", "floor", "items"} : body[f] # None}
           \cup {"updatedAt"}
        |-> IF k = "updatedAt" THEN t ELSE body[k][1]]

\* Query(1, ge=1) on page
ValidPage(page) == page >= 1

\* Query(5, ge=1, le=20) on limit
MinLimit == 1
MaxLimit == 20

\* the upper bound written lt=20
ValidLimitBelowMax(limit) == limit >= MinLimit /\ limit < MaxLimit

ValidLimit(limit) == limit >= MinLimit /\ limit <= MaxLimit

\* Query(..., min_length=1) on q
MinQueryLength == 1
ValidQuery(q) == Len(q) >= MinQueryLength


---------------------------------------------------------------------------
(* Requests the clients send.                                              *)

Optional(S) == {None} \cup {Some(v) : v \in S}

\* bodies of POST /racks: a full one, one with blank strings and no items,
\* and two that lack a required field
CreateBodies ==
    {[rackNumber |-> Some(<<"a">>), floor |-> Some(<<"b">>),
      items |-> Some(<< <<"b">>, <<"a">> >>)],
     [rackNumber |-> Some(<<>>), floor |-> Some(<<" ">>), items |-> None],
     [rackNumber |-> None, floor |-> Some(<<"b">>), items |-> None],
     [rackNumber |-> Some(<<"a">>), floor |-> None, items |-> Some(<<>>)]}

\* bodies of PUT /racks/{id}: every subset of the three fields
UpdateBodies ==
    [rackNumber : Optional({<<>>}),
     floor      : Optional({<<"b">>}),
     items      : Optional({<<>>})]

\* ids a client may ask for: 0 is an id no rack ever had
Ids == 0 .. MaxIds

\* the racks created in a run of creations and deletions alone
MaxCreates == 3

---------------------------------------------------------------------------
(* Responses.                                                              *)

\* no response sent
NoResp ==
    [n |-> 0, op |-> "none", id |-> 0, q |-> <<>>, page |-> 0, limit |-> 0,
     status |-> 0, calls |-> 0, rack |-> None, floors |-> <<>>, keys |-> <<>>,
     racks |-> <<>>, matchedItems |-> <<>>]

\* the response to a request op on id: its status, the number of store
\* operations the handler issued, and the Rack in its body (or None);
\* n alternates so that two responses in a row differ
Resp(op, id, status, calls, rack) ==
    [NoResp EXCEPT !.n = 1 - last.n, !.op = op, !.id = id,
                   !.status = status, !.calls = calls, !.rack = rack]

\* the locals of a handler that is not running
NoLoc == [id |-> 0, body |-> <<>>, data |-> <<>>, seen |-> 0, floors |-> <<>>,
          page |-> 0, limit |-> 0]

\* the Rack model read from a stored document: Rack(**rack)
RackOf(doc) == doc

\* the history of the stored, never-updated racks without id
Forget(h, id) == [i \in DOMAIN h \ {id} |-> h[i]]

---------------------------------------------------------------------------
(* State and handlers.                                                     *)

Init ==
    /\ racks = <<>>
    /\ nextId = 0
    /\ now = 0
    /\ pc = [p \in Procs |-> "idle"]
    /\ loc = [p \in Procs |-> NoLoc]
    /\ last = NoResp
    /\ pristine = <<>>
    /\ assigned = {}

\* time passes
Tick ==
    /\ now < MaxTime
    /\ now' = now + 1
    /\ last' = NoResp
    /\ UNCHANGED <<racks, nextId, pc, loc, pristine, assigned>>

\* POST /racks.  d: the ticks between the two default_factory calls of
\* datetime.utcnow; accept: whether the store takes the insert
CreateRack(body, d, accept) ==
    IF ~ValidRackCreate(body)
    THEN /\ last' = Resp("create", 0, 422, 0, None)
         /\ UNCHANGED <<racks, nextId, now, pc, loc, pristine, assigned>>
    ELSE /\ now + d <= MaxTime
         /\ LET rack_dict == RackCreateDict(body)
                rack_obj  == NewRack(rack_dict, Uuid4(nextId), now, now + d)
            IN  /\ nextId' = nextId + 1
                /\ now' = now + d
                /\ IF accept
                   THEN /\ racks' = InsertOne(racks, rack_obj)
                        /\ last' = Resp("create", rack_obj.id, 200, 1,
                                        Some(rack_obj))
                        /\ pristine' =
                             [i \in DOMAIN pristine \cup {rack_obj.id} |->
                                IF i = rack_obj.id THEN rack_dict
                                ELSE pristine[i]]
                        /\ assigned' = assigned \cup {rack_obj.id}
                   ELSE /\ last' = Resp("create", 0, 500, 1, None)
                        /\ UNCHANGED <<racks, pristine, assigned>>
         /\ UNCHANGED <<pc, loc>>

\* GET /racks/{rack_id}
GetRack(rack_id) ==
    /\ LET rack == FindOne(racks, rack_id)
       IN  last' = IF rack = None
                   THEN Resp("get", rack_id, 404, 1, None)
                   ELSE Resp("get", rack_id, 200, 1, Some(RackOf(rack[1])))
    /\ UNCHANGED <<racks, nextId, now, pc, loc, pristine, assigned>>

\* DELETE /racks/{rack_id}
DeleteRack(rack_id) ==
    /\ racks' = DeleteOne(racks, rack_id)
    /\ last' = IF DeletedCount(racks, rack_id) = 0
               THEN Resp("delete", rack_id, 404, 1, None)
               ELSE Resp("delete", rack_id, 200, 1, None)
    /\ pristine' = IF DeletedCount(racks, rack_id) = 0 THEN pristine
                   ELSE Forget(pristine, rack_id)
    /\ UNCHANGED <<nextId, now, pc, loc, assigned>>

\* PUT /racks/{rack_id}, up to its second await: the existence check, then
\* update_data is built and update_one issued.  Of the document found the
\* handler uses nothing; seen keeps its updatedAt for the properties.
UpdateFind(p, rack_id, body) ==
    /\ pc[p] = "idle"
    /\ LET rack == FindOne(racks, rack_id)
       IN  IF rack = None
           THEN /\ last' = Resp("update", rack_id, 404, 1, None)
                /\ UNCHANGED <<pc, loc>>
           ELSE /\ pc' = [pc EXCEPT ![p] = "update_write"]
                /\ loc' = [loc EXCEPT ![p] =
                             [NoLoc EXCEPT !.id = rack_id,
                                           !.body = body,
                                           !.data = UpdateData(body, now),
                                           !.seen = rack[1].updatedAt]]
                /\ last' = NoResp
    /\ UNCHANGED <<racks, nextId, now, pristine, assigned>>

\* PUT /racks/{rack_id}: the store applies update_one
UpdateWrite(p) ==
    /\ pc[p] = "update_write"
    /\ racks' = UpdateOne(racks, loc[p].id, loc[p].data)
    /\ pristine' = IF Matching(racks, loc[p].id) = {} THEN pristine
                   ELSE Forget(pristine, loc[p].id)
    /\ pc' = [pc EXCEPT ![p] = "update_reread"]
    /\ last' = NoResp
    /\ UNCHANGED <<nextId, now, loc, assigned>>

\* PUT /racks/{rack_id}: the re-read and the response; Rack(**None) raises
\* TypeError, which the handler's except Exception turns into a 500
UpdateReread(p) ==
    /\ pc[p] = "update_reread"
    /\ LET updated_rack == FindOne(racks, loc[p].id)
       IN  last' = IF updated_rack = None
                   THEN Resp("update", loc[p].id, 500, 3, None)
                   ELSE Resp("update", loc[p].id, 200, 3,
                             Some(RackOf(updated_rack[1])))
    /\ pc' = [pc EXCEPT ![p] = "idle"]
    /\ loc' = [loc EXCEPT ![p] = NoLoc]
    /\ UNCHANGED <<racks, nextId, now, pristine, assigned>>

\* the skip of a page counted from 0
SkipFromPage(page, limit) == page * limit

\* skip = (page - 1) * limit
Skip(page, limit) == (page - 1) * limit

\* a grouping keyed by the floors of the racks found
GroupByFloorFound(paginated_floors, found) ==
    [f \in {RackOf(found[k]).floor : k \in DOMAIN found} |->
        SelectSeq(found, LAMBDA rack : RackOf(rack).floor = f)]

\* floors = {floor: [] for floor in paginated_floors}, then each rack found
\* is appended to the list of its floor if its floor is a key
GroupByFloor(paginated_floors, found) ==
    [f \in Range(paginated_floors) |->
        SelectSeq(found, LAMBDA rack : RackOf(rack).floor = f)]

\* GET /racks, up to its second await: validation, the distinct floors
\* sorted, the page's window; an empty window is answered at once
ListFloors(p, page, limit) ==
    /\ pc[p] = "idle"
    /\ IF ~(ValidPage(page) /\ ValidLimit(limit))
       THEN /\ last' = [Resp("list", 0, 422, 0, None) EXCEPT
                           !.page = page, !.limit = limit]
            /\ UNCHANGED <<pc, loc>>
       ELSE LET skip == Skip(page, limit)
                all_floors == SortStrings(Distinct(racks))
                paginated_floors == Slice(all_floors, skip, skip + limit)
            IN  IF paginated_floors = <<>>
                THEN /\ last' = [Resp("list", 0, 200, 1, None) EXCEPT
                                    !.page = page, !.limit = limit]
                     /\ UNCHANGED <<pc, loc>>
                ELSE /\ pc' = [pc EXCEPT ![p] = "list_find"]
                     /\ loc' = [loc EXCEPT ![p] =
                                  [NoLoc EXCEPT !.floors = paginated_floors,
                                                !.page = page,
                                                !.limit = limit]]
                     /\ last' = NoResp
    /\ UNCHANGED <<racks, nextId, now, pristine, assigned>>

\* GET /racks: the racks of the window's floors are read and grouped
ListFind(p) ==
    /\ pc[p] = "list_find"
    /\ LET found == ToList(FindInFloors(racks, loc[p].floors), ToListLimit)
       IN  last' = [Resp("list", 0, 200, 2, None) EXCEPT
                       !.page = loc[p].page, !.limit = loc[p].limit,
                       !.keys = loc[p].floors,
                       !.floors = GroupByFloor(loc[p].floors, found)]
    /\ pc' = [pc EXCEPT ![p] = "idle"]
    /\ loc' = [loc EXCEPT ![p] = NoLoc]
    /\ UNCHANGED <<racks, nextId, now, pristine, assigned>>

\* matched_items: rack.id -> the rack's matched items, for the racks that
\* have some (a later rack with the same id replaces an earlier one)
MatchedItems(regex, rack_objects) ==
    LET hit == {k \in DOMAIN rack_objects :
                  MatchedOf(regex, rack_objects[k].items) # <<>>}
    IN  [id \in {rack_objects[k].id : k \in hit} |->
           MatchedOf(regex,
              rack_objects[CHOOSE k \in hit :
                              /\ rack_objects[k].id = id
                              /\ \A j \in hit :
                                    rack_objects[j].id = id => j <= k].items)]

\* GET /racks/search
SearchRacks(q) ==
    /\ IF ~ValidQuery(q)
       THEN last' = [Resp("search", 0, 422, 0, None) EXCEPT !.q = q]
       ELSE LET found == ToList(TextFind(racks, q), SearchToListLimit)
                rack_objects == [k \in DOMAIN found |-> RackOf(found[k])]
                search_regex == SearchRegex(q)
            IN  IF ~search_regex.ok
                THEN last' = [Resp("search", 0, 500, 1, None) EXCEPT !.q = q]
                ELSE last' = [Resp("search", 0, 200, 1, None) EXCEPT
                                 !.q = q, !.racks = rack_objects,
                                 !.matchedItems =
                                     MatchedItems(search_regex, rack_objects)]
    /\ UNCHANGED <<racks, nextId, now, pc, loc, pristine, assigned>>

\* bodies of the updates sent during the life cycle of the racks: nothing
\* supplied, or the items alone
FewUpdateBodies ==
    {b \in UpdateBodies : b.rackNumber = None /\ b.floor = None}

\* The life cycle of the racks: creations, reads, deletions, and one update
\* in flight at a time (slot p1) that the other requests interleave with.
Next ==
    \/ Tick
    \/ \E body \in CreateBodies, d \in {0, 1}, accept \in BOOLEAN :
          /\ ValidRackCreate(body) => nextId < MaxIds
          /\ CreateRack(body, d, accept)
    \/ \E rack_id \in Ids : GetRack(rack_id)
    \/ \E rack_id \in Ids : DeleteRack(rack_id)
    \/ \E rack_id \in Ids, body \in FewUpdateBodies :
          UpdateFind("p1", rack_id, body)
    \/ UpdateWrite("p1")
    \/ UpdateReread("p1")

Spec == Init /\ [][Next]_vars

\* Creations and deletions alone, with enough ids for a rack to be created
\* beside a stored one after another was deleted.
NextCreate ==
    \/ \E body \in CreateBodies, d \in {0, 1}, accept \in BOOLEAN :
          /\ ValidRackCreate(body) => nextId < MaxCreates
          /\ CreateRack(body, d, accept)
    \/ \E rack_id \in 0 .. MaxCreates : DeleteRack(rack_id)

SpecCreate == Init /\ [][NextCreate]_vars

---------------------------------------------------------------------------
(* Properties of the life cycle (Spec, SpecCreate).                        *)

\* the ids of the stored racks
StoredIds == {racks[i].id : i \in DOMAIN racks}

\* s without its leading and trailing blanks
RECURSIVE TrimLeft(_)
TrimLeft(s) ==
    IF s # <<>> /\ Head(s) = " " THEN TrimLeft(Tail(s)) ELSE s

RECURSIVE TrimRight(_)
TrimRight(s) ==
    IF s # <<>> /\ s[Len(s)] = " " THEN TrimRight(SubSeq(s, 1, Len(s) - 1))
    ELSE s

Trim(s) == TrimRight(TrimLeft(s))

\* C1 (as claimed): a get_rack of a rack that create_rack stored and no
\* update has modified returns the rackNumber, floor and items given to
\* create_rack, and createdAt equal to updatedAt.
C1_RoundTrip ==
    (last.op = "get" /\ last.status = 200 /\ last.id \in DOMAIN pristine) =>
        /\ last.rack[1].rackNumber = pristine[last.id].rackNumber
        /\ last.rack[1].floor = pristine[last.id].floor
        /\ last.rack[1].items = pristine[last.id].items
        /\ last.rack[1].createdAt = last.rack[1].updatedAt

\* C1, the part the code keeps: the three fields make the round trip.
C1_FieldsRoundTrip ==
    (last.op = "get" /\ last.status = 200 /\ last.id \in DOMAIN pristine) =>
        /\ last.rack[1].rackNumber = pristine[last.id].rackNumber
        /\ last.rack[1].floor = pristine[last.id].floor
        /\ last.rack[1].items = pristine[last.id].items

\* C3: a get, update or delete request that starts when its id has no
\* record in the store (never created, or deleted) is answered 404 and
\* leaves the store as it is.  A response sent with no handler slot moving
\* is one of a request that started in this step.
C3_NotFound ==
    [][(/\ last'.op \in {"get", "update", "delete"}
        /\ pc' = pc
        /\ last'.id \notin StoredIds)
       => (last'.status = 404 /\ racks' = racks)]_vars

\* C3's case: an update of an id that a rack had, and that was deleted,
\* was answered 404.
C3_Witness ==
    /\ last.op = "update"
    /\ last.status = 404
    /\ last.id \in assigned
    /\ last.id \notin StoredIds

\* C7 (as claimed): create_rack stores no rack whose rackNumber or floor is
\* empty after trimming, and answers such a request with a failure.
C7_BlankRejected ==
    /\ \A i \in DOMAIN racks :
          Trim(racks[i].rackNumber) # <<>> /\ Trim(racks[i].floor) # <<>>
    /\ (last.op = "create" /\ last.status = 200) =>
          (Trim(last.rack[1].rackNumber) # <<>>
           /\ Trim(last.rack[1].floor) # <<>>)

\* C9 (as claimed): with the store never failing, an update_rack ends with
\* 200 or 404, never 500, also when a delete of the same id takes effect
\* while the handler is suspended.
C9_UpdateNever500 ==
    last.op = "update" => last.status \in {200, 404}

\* C10: a create_rack with a valid body whose insert the store accepts
\* succeeds whatever the store holds; it appends exactly one record, leaves
\* the existing records as they are, and gives the new rack an id that no
\* rack had before, deleted racks included.
C10_CreateFresh ==
    [][\A body \in CreateBodies, d \in {0, 1} :
          (ValidRackCreate(body) /\ CreateRack(body, d, TRUE)) =>
             /\ last'.status = 200
             /\ Len(racks') = Len(racks) + 1
             /\ SubSeq(racks', 1, Len(racks)) = racks
             /\ racks'[Len(racks')].id = last'.id
             /\ last'.id \notin assigned
             /\ last'.id \notin StoredIds]_vars

\* C10's case: a rack was created beside a stored rack with the same
\* rackNumber and floor, after an earlier rack had been deleted.
C10_Witness ==
    /\ last.op = "create"
    /\ last.status = 200
    /\ Len(racks) = 2
    /\ racks[1].rackNumber = racks[2].rackNumber
    /\ racks[1].floor = racks[2].floor
    /\ Cardinality(assigned) > Len(racks)

---------------------------------------------------------------------------
(* Updates racing each other and a deletion, on a store of two racks.      *)

\* two racks as create_rack stores them at time 0
InitRace ==
    /\ racks = InsertOne(InsertOne(<<>>,
                 NewRack([rackNumber |-> <<"a">>, floor |-> <<" ">>,
                          items |-> << <<"b">>, <<"a">> >>], 1, 0, 0)),
                 NewRack([rackNumber |-> <<"a">>, floor |-> <<" ">>,
                          items |-> <<>>], 2, 0, 0))
    /\ nextId = 2
    /\ now = 0
    /\ pc = [p \in Procs |-> "idle"]
    /\ loc = [p \in Procs |-> NoLoc]
    /\ last = NoResp
    /\ pristine = [i \in {1, 2} |->
                     [rackNumber |-> racks[i].rackNumber,
                      floor |-> racks[i].floor, items |-> racks[i].items]]
    /\ assigned = {1, 2}

NextRace ==
    \/ Tick
    \/ \E rack_id \in {0, 1} : DeleteRack(rack_id)
    \/ \E p \in Procs, rack_id \in {0, 1}, body \in UpdateBodies :
          UpdateFind(p, rack_id, body)
    \/ \E p \in Procs : UpdateWrite(p)
    \/ \E p \in Procs : UpdateReread(p)

SpecRace == InitRace /\ [][NextRace]_vars

---------------------------------------------------------------------------
(* Listing and searching a store that does not change.                     *)

\* the racks of the stores that are searched
SearchedRacks ==
    [rackNumber : {<<"a">>, <<"a", "b">>},
     floor : {<<"b">>, <<"A", " ", "b">>},
     items : {<<>>,
              << <<"a">>, <<"b">>, <<"a">> >>,
              << <<"a", "*", "b">>, <<"A", "b">> >>}]

\* the floors of the stores that are listed
ListedFloors == {<<"a">>, <<"a", "b">>, <<"b">>}

\* the queries sent to the search
Queries ==
    {<<>>, <<"a">>, <<"A">>, <<"b">>, <<"a", "b">>, <<"a", "*">>, <<"*">>,
     <<"a", " ", "b">>, <<"a", "*", "b">>, <<" ">>}

\* the pages and limits asked of the listing
Pages == 0 .. MaxPage
Limits == ((MinLimit - 1) .. (MinLimit + 2)) \cup {MaxLimit, MaxLimit + 1}

\* the store that holds, in this order, racks with the given fields, as
\* create_rack stores them at time 0
StoreOf(fields) ==
    [i \in DOMAIN fields |->
        [id |-> i, rackNumber |-> fields[i].rackNumber,
         floor |-> fields[i].floor, items |-> fields[i].items,
         createdAt |-> BsonDate(0), updatedAt |-> BsonDate(0)]]

\* what holds of the other variables when the store was filled by
\* create_rack alone and no request is in flight
FreshlyFilled ==
    /\ nextId = Len(racks)
    /\ now = 0
    /\ pc = [p \in Procs |-> "idle"]
    /\ loc = [p \in Procs |-> NoLoc]
    /\ last = NoResp
    /\ pristine = [i \in DOMAIN racks |->
                     [rackNumber |-> racks[i].rackNumber,
                      floor |-> racks[i].floor, items |-> racks[i].items]]
    /\ assigned = DOMAIN racks

\* a store of up to MaxListRacks racks on the listed floors
InitQuery ==
    /\ \E n \in 0 .. MaxListRacks : \E fs \in [1 .. n -> ListedFloors] :
          racks = StoreOf([i \in 1 .. n |->
                             [rackNumber |-> <<"a">>, floor |-> fs[i],
                              items |-> <<>>]])
    /\ FreshlyFilled

\* the read requests, one listing in flight at a time
NextQuery ==
    \/ \E q \in Queries : SearchRacks(q)
    \/ \E page \in Pages, limit \in Limits : ListFloors("p1", page, limit)
    \/ ListFind("p1")

SpecQuery == InitQuery /\ [][NextQuery]_vars

\* a store of one or two of the searched racks
InitSearch ==
    /\ \E n \in 1 .. 2 : \E fields \in [1 .. n -> SearchedRacks] :
          racks = StoreOf(fields)
    /\ FreshlyFilled

NextSearch == \E q \in Queries : SearchRacks(q)

SpecSearch == InitSearch /\ [][NextSearch]_vars

---------------------------------------------------------------------------
(* Properties of the listing and of the search (SpecQuery, SpecSearch).    *)

\* the floors that have a rack
FloorSet == {racks[i].floor : i \in DOMAIN racks}

\* the number of floors before f in ascending order
FloorRank(f) == Cardinality({g \in FloorSet : StrLess(g, f)})

\* the floors of page number page when every page holds limit floors of the
\* ascending list
PageFloors(page, limit) ==
    {f \in FloorSet :
        (page - 1) * limit <= FloorRank(f) /\ FloorRank(f) < page * limit}

\* the stored racks whose floor is f
RacksOn(f) == {racks[i] : i \in {j \in DOMAIN racks : racks[j].floor = f}}

\* the listing maps floor f to exactly the racks on f, each once
ExactlyTheRacksOn(f) ==
    /\ Range(last.floors[f]) = RacksOn(f)
    /\ Len(last.floors[f]) = Cardinality(RacksOn(f))

ContainsCI(s, q) ==
    \E k \in 0 .. (Len(s) - Len(q)) :
        \A j \in 1 .. Len(q) : Lower(s[k + j]) = Lower(q[j])

\* q occurs in the rackNumber, the floor or an item of the rack
Mentions(rack, q) ==
    \/ ContainsCI(rack.rackNumber, q)
    \/ ContainsCI(rack.floor, q)
    \/ \E k \in DOMAIN rack.items : ContainsCI(rack.items[k], q)

\* C5 (as claimed): the racks returned by a search for a non-empty q
\* include every stored rack in which q occurs as a substring, without
\* case, of rackNumber, floor or an item.
C5_SearchRecall ==
    (last.op = "search" /\ last.status = 200) =>
        \A i \in DOMAIN racks :
            Mentions(racks[i], last.q) => racks[i] \in Range(last.racks)

\* the items of the rack in which q occurs, in the rack's order
Containing(rack, q) == SelectSeq(rack.items, LAMBDA item : ContainsCI(item, q))

\* C6: a search for a non-empty q, metacharacters included, is answered
\* 200; matchedItems has the key r.id, for a returned rack r, exactly when
\* q occurs in an item of r, and then maps it to the items of r in which q
\* occurs, in r's order; it has no key that is not a returned rack's id.
C6_Highlight ==
    (last.op = "search" /\ last.q # <<>>) =>
        /\ last.status = 200
        /\ DOMAIN last.matchedItems
              \subseteq {last.racks[k].id : k \in DOMAIN last.racks}
        /\ \A k \in DOMAIN last.racks :
              LET r == last.racks[k]
              IN  /\ r.id \in DOMAIN last.matchedItems
                        <=> Containing(r, last.q) # <<>>
                  /\ Containing(r, last.q) # <<>>
                        => last.matchedItems[r.id] = Containing(r, last.q)

\* C6's case: a query with "*" in it returned one rack with some but not
\* all of its items matched, and one rack with no key in matchedItems.
C6_Witness ==
    /\ last.op = "search"
    /\ last.status = 200
    /\ "*" \in Range(last.q)
    /\ \E k \in DOMAIN last.racks :
          /\ last.racks[k].id \in DOMAIN last.matchedItems
          /\ Len(last.matchedItems[last.racks[k].id])
                < Len(last.racks[k].items)
    /\ \E k \in DOMAIN last.racks :
          last.racks[k].id \notin DOMAIN last.matchedItems

\* C8: a search is rejected (422) exactly when q is empty, a listing
\* exactly when page < 1, limit < 1 or limit > 20, and is answered 200
\* otherwise; a rejected request has issued no store operation and leaves
\* the store as it is.
C8_Validation ==
    [][/\ last'.op = "search" =>
             (last'.status = 422 <=> last'.q = <<>>)
       /\ last'.op = "list" =>
             /\ last'.status \in {200, 422}
             /\ last'.status = 422 <=>
                   (last'.page < 1 \/ last'.limit < 1 \/ last'.limit > 20)
       /\ (last'.op \in {"search", "list"} /\ last'.status = 422) =>
             (last'.calls = 0 /\ racks' = racks)]_vars

\* C8's case: a search with an empty q on a store that holds racks was
\* rejected.
C8_Witness ==
    /\ last.op = "search"
    /\ last.q = <<>>
    /\ last.status = 422
    /\ racks # <<>>

---------------------------------------------------------------------------
(* Properties of the racing updates (SpecRace).                            *)

\* The step in which the store applies slot p's update_one to an existing
\* rack: each field the request supplied has the request's value, each
\* field it left out, id and createdAt have their previous value, and every
\* other rack is as it was.
FieldsAsSupplied(p) ==
    /\ Len(racks') = Len(racks)
    /\ \A i \in DOMAIN racks :
          IF racks[i].id # loc[p].id THEN racks'[i] = racks[i]
          ELSE /\ racks'[i].id = racks[i].id
               /\ racks'[i].createdAt = racks[i].createdAt
               /\ racks'[i].rackNumber =
                     IF loc[p].body.rackNumber = None THEN racks[i].rackNumber
                     ELSE loc[p].body.rackNumber[1]
               /\ racks'[i].floor =
                     IF loc[p].body.floor = None THEN racks[i].floor
                     ELSE loc[p].body.floor[1]
               /\ racks'[i].items =
                     IF loc[p].body.items = None THEN racks[i].items
                     ELSE loc[p].body.items[1]

\* slot p's update_one is applied in this step, to a rack that exists
WritesExisting(p) ==
    /\ pc[p] = "update_write"
    /\ pc'[p] = "update_reread"
    /\ loc[p].id \in StoredIds

\* C2 (as claimed): an update of an existing rack sets the supplied fields,
\* keeps the others, id, createdAt and every other rack, and makes
\* updatedAt strictly greater than it was.
C2_StrictlyLater ==
    [][\A p \in Procs : WritesExisting(p) =>
          /\ FieldsAsSupplied(p)
          /\ \A i \in DOMAIN racks : racks[i].id = loc[p].id =>
                racks'[i].updatedAt > racks[i].updatedAt]_vars

\* C2 (amended): as claimed for the fields; updatedAt becomes the time the
\* handler read, cut to the store's millisecond, which is never less than
\* the updatedAt its existence check found, and may be equal to it.
C2_PartialUpdate ==
    [][\A p \in Procs : WritesExisting(p) =>
          /\ FieldsAsSupplied(p)
          /\ \A i \in DOMAIN racks : racks[i].id = loc[p].id =>
                /\ racks'[i].updatedAt = BsonDate(loc[p].data.updatedAt)
                /\ racks'[i].updatedAt >= loc[p].seen]_vars

\* C2's case: an update that supplied the items alone has been applied,
\* the rack keeps its rackNumber and floor, and its updatedAt is what the
\* existence check found (the same millisecond).
C2_Witness ==
    \E p \in Procs, i \in DOMAIN racks :
        /\ pc[p] = "update_reread"
        /\ loc[p].body.rackNumber = None
        /\ loc[p].body.floor = None
        /\ loc[p].body.items # None
        /\ racks[i].id = loc[p].id
        /\ racks[i].items = loc[p].body.items[1]
        /\ racks[i].rackNumber = <<"a">>
        /\ racks[i].floor = <<" ">>
        /\ racks[i].updatedAt = loc[p].seen

---------------------------------------------------------------------------
(* Creations, deletions and two updates in flight (SpecRecord).            *)

\* the update that supplies no field: it writes updatedAt alone
TouchBodies ==
    {b \in UpdateBodies :
        b.rackNumber = None /\ b.floor = None /\ b.items = None}

\* creations, deletions and updates in both slots, in any interleaving,
\* with the clock advancing between any two steps; the updates are of the
\* rack created first, or of no rack
NextRecord ==
    \/ Tick
    \/ \E body \in CreateBodies, d \in {0, 1}, accept \in BOOLEAN :
          /\ ValidRackCreate(body) => nextId < MaxIds
          /\ CreateRack(body, d, accept)
    \/ \E rack_id \in Ids : DeleteRack(rack_id)
    \/ \E p \in Procs, rack_id \in {0, 1}, body \in TouchBodies :
          UpdateFind(p, rack_id, body)
    \/ \E p \in Procs : UpdateWrite(p)
    \/ \E p \in Procs : UpdateReread(p)

SpecRecord == Init /\ [][NextRecord]_vars

\* the fields of a stored rack
RackFields == {"id", "rackNumber", "floor", "items", "createdAt", "updatedAt"}

\* every stored rack has the six fields and createdAt <= updatedAt, and no
\* two stored racks share an id
WellFormedRacks ==
    /\ \A i \in DOMAIN racks :
          /\ DOMAIN racks[i] = RackFields
          /\ racks[i].createdAt <= racks[i].updatedAt
    /\ \A i, j \in DOMAIN racks : racks[i].id = racks[j].id => i = j

\* a stored rack that is still stored after the step has the createdAt it
\* had before it; a rack that enters the store has an id never given before
\* and the createdAt that create_rack read, cut to the store's millisecond
KeepsIdentity ==
    \A i \in DOMAIN racks' :
        IF racks'[i].id \in StoredIds
        THEN \A j \in DOMAIN racks :
                racks[j].id = racks'[i].id =>
                   racks'[i].createdAt = racks[j].createdAt
        ELSE /\ racks'[i].id \notin assigned
             /\ last'.op = "create"
             /\ racks'[i].id = last'.rack[1].id
             /\ racks'[i].createdAt = BsonDate(last'.rack[1].createdAt)

\* C11: in every state reached by interleaved creations, updates and
\* deletions, every stored rack has its six fields and createdAt <=
\* updatedAt, and no step changes the id or the createdAt a rack got when
\* it was created.
C11_RecordInvariant == []WellFormedRacks /\ [][KeepsIdentity]_vars

\* C11's case: a stored rack was updated in a later millisecond than the
\* one it was created in, while the other slot's update of the same rack
\* is still to be written.
C11_Witness ==
    \E i \in DOMAIN racks, p \in Procs :
        /\ racks[i].createdAt < racks[i].updatedAt
        /\ racks[i].id \notin DOMAIN pristine
        /\ pc[p] = "update_write"
        /\ loc[p].id = racks[i].id

---------------------------------------------------------------------------
(* A listing with writes between its two reads (SpecListing).              *)

\* the update that moves a rack to another floor
FloorBodies ==
    {b \in UpdateBodies :
        b.rackNumber = None /\ b.floor # None /\ b.items = None}

\* the pages and limits asked of a listing that writes interleave with
ListingPages == {1, 2}
ListingLimits == {1, 2}

\* one listing in flight (slot p1); creations, deletions and one update in
\* flight (slot p2) take place before, between and after its two reads
NextListing ==
    \/ \E body \in CreateBodies :
          /\ ValidRackCreate(body) => nextId < MaxIds
          /\ CreateRack(body, 0, TRUE)
    \/ \E rack_id \in Ids : DeleteRack(rack_id)
    \/ \E rack_id \in Ids, body \in FloorBodies :
          UpdateFind("p2", rack_id, body)
    \/ UpdateWrite("p2")
    \/ UpdateReread("p2")
    \/ \E page \in ListingPages, limit \in ListingLimits :
          ListFloors("p1", page, limit)
    \/ ListFind("p1")

SpecListing == Init /\ [][NextListing]_vars

\* the step of the distinct-floors read that finds a non-empty window: the
\* window kept is the page's slice of the floors stored at that moment
WindowRead ==
    (pc["p1"] = "idle" /\ pc'["p1"] = "list_find") =>
        Range(loc'["p1"].floors)
           = PageFloors(loc'["p1"].page, loc'["p1"].limit)

\* the step of the racks read: the call succeeds, its keys are the floors
\* of the window kept, and each rack under key f is a stored rack whose
\* floor is f at that moment
RacksRead ==
    (pc["p1"] = "list_find" /\ pc'["p1"] = "idle") =>
        /\ last'.op = "list"
        /\ last'.status = 200
        /\ DOMAIN last'.floors = Range(loc["p1"].floors)
        /\ \A f \in DOMAIN last'.floors :
              \A k \in DOMAIN last'.floors[f] :
                 /\ last'.floors[f][k].floor = f
                 /\ \E i \in DOMAIN racks : racks[i] = last'.floors[f][k]

\* C12: a get_all_racks call with a non-empty floor window, with creations,
\* updates and deletions between its distinct-floors read and its racks
\* read, succeeds; its keys are exactly the windowed floors of the
\* distinct-floors read (a floor emptied meanwhile is a key mapped to the
\* empty list), and every rack under key f has floor f as of the racks
\* read.
C12_ListingUnderWrites == [][WindowRead /\ RacksRead]_vars

\* C12's case: a listing was answered with a key that no stored rack has
\* as its floor any more, mapped to the empty list.
C12_Witness ==
    /\ last.op = "list"
    /\ last.status = 200
    /\ \E f \in DOMAIN last.floors :
          /\ last.floors[f] = <<>>
          /\ f \notin FloorSet

---------------------------------------------------------------------------
(* Deleted racks stay deleted (Spec).                                      *)

\* the ids of the racks that were stored and have been removed
DeletedIds == assigned \ StoredIds

\* C13: once delete_rack has removed the record of an id, no later state
\* holds a record with that id: no step brings a removed id back, be it the
\* write of an update_rack that passed its existence check before the
\* deletion (it matches nothing and inserts nothing) or a creation.
C13_NoResurrection ==
    [][\A id \in DeletedIds : id \notin {racks'[i].id : i \in DOMAIN racks'}]_vars

\* C13's case: an update passed its existence check, the rack was then
\* deleted, and the update's write has been applied to the store.
C13_Witness ==
    /\ pc["p1"] = "update_reread"
    /\ loc["p1"].id \in DeletedIds

---------------------------------------------------------------------------
(* Two updates of one rack that supply disjoint fields (SpecDisjoint).     *)

\* the update that supplies the items alone
ItemsBodies ==
    {b \in UpdateBodies :
        b.rackNumber = None /\ b.floor = None /\ b.items # None}

\* On the store of two racks, slot p1 sends updates of rack 1 that supply
\* the floor alone and slot p2 updates of rack 1 that supply the items
\* alone, any number of times and in any interleaving; nothing is deleted.
NextDisjoint ==
    \/ Tick
    \/ \E body \in FloorBodies : UpdateFind("p1", 1, body)
    \/ \E body \in ItemsBodies : UpdateFind("p2", 1, body)
    \/ \E p \in Procs : UpdateWrite(p)
    \/ \E p \in Procs : UpdateReread(p)

SpecDisjoint == InitRace /\ [][NextDisjoint]_vars

\* field f of rack 1 changes in no step but the write of slot p, which
\* gives it the value that request supplied
WrittenOnlyBy(p, f) ==
    \A i \in DOMAIN racks :
        racks[i].id = 1 =>
           /\ WritesExisting(p) => racks'[i][f] = loc[p].body[f][1]
           /\ ~WritesExisting(p) => racks'[i][f] = racks[i][f]

\* C14: two update_rack requests on the same rack supply disjoint fields
\* (one the floor, the other the items) and run in any interleaving with
\* no delete: each write gives its own field the value supplied and leaves
\* the other request's field and the field neither supplied as they are,
\* so once both have written the record holds the value of each and no
\* stale value is written back.
C14_NoLostField ==
    [][/\ Len(racks') = Len(racks)
       /\ WrittenOnlyBy("p1", "floor")
       /\ WrittenOnlyBy("p2", "items")
       /\ \A i \in DOMAIN racks : racks'[i].rackNumber = racks[i].rackNumber
       /\ \A i \in DOMAIN racks : racks[i].id # 1 => racks'[i] = racks[i]]_vars

\* C14's case: both requests passed their existence checks before either
\* wrote, both have written, and the record holds the floor of the one and
\* the items of the other.
C14_Witness ==
    /\ pc["p1"] = "update_reread"
    /\ pc["p2"] = "update_reread"
    /\ loc["p1"].seen = 0
    /\ loc["p2"].seen = 0
    /\ \E i \in DOMAIN racks :
          /\ racks[i].id = 1
          /\ racks[i].updatedAt > 0
          /\ racks[i].floor = loc["p1"].body.floor[1]
          /\ racks[i].items = loc["p2"].body.items[1]
          /\ racks[i].floor # pristine[2].floor
          /\ racks[i].rackNumber = pristine[2].rackNumber

====
